---- MODULE Spec2Model ----
(***************************************************************************)
(* A model of usd-rate-chart (src/main.go): a TTL cache, the fetch-and-    *)
(* parse pipeline fetchXML, the three queries of CurrencyService and the   *)
(* two route handlers.                                                     *)
(*                                                                         *)
(* Time is a discrete clock `now`, counted in ticks since the instant the  *)
(* server started; TicksPerHour ticks make an hour.  Text that the code    *)
(* inspects character by character (the raw rate values) is a sequence of  *)
(* one-character strings; text that the code only copies or compares (URLs,*)
(* dates of documents, currency codes) is a string.                        *)
(***************************************************************************)
EXTENDS Integers, Sequences, FiniteSets, TLC

VARIABLES
    now,         \* the wall clock (time.Now()), in ticks since the start
    data,        \* Cache.data: key -> cached value
    expiration,  \* Cache.expiration: key -> expiration instant
    mu,          \* Cache.mu: who holds the RWMutex, and who waits to write
    pc,          \* per worker: where its request handler stands
    loc,         \* per worker: the locals of its handler and fetchXML call
    out,         \* per worker: the response of the handler that just ended
    hist,        \* cache harness: per key, the last Set call made on it
    got,         \* cache harness: the last Get call and what it returned
    qin,         \* query harness: the result handed back by fetchXML
    qout         \* query harness: the call made and what it returned

vars == <<now, data, expiration, mu, pc, loc, out, hist, got, qin, qout>>

-----------------------------------------------------------------------------
(* Bounds of the model.                                                    *)

TicksPerHour == 2     \* resolution of the clock
MaxElapsed == 3       \* the clock stops after this many ticks
MaxEntries == 3       \* longest entry list of a document (query harness)
MaxDays == 370        \* days after StartDate the date harness covers
NumWorkers == 2       \* concurrent request workers
MaxTTL == 2           \* largest ttl the cache harness passes to Set

-----------------------------------------------------------------------------
(* Durations and constants of the program (src/main.go:20-25).             *)

Hour == TicksPerHour
TicksPerDay == 24 * Hour
cacheExpirationMinute == Hour \div 60
cacheExpiration == 1 * Hour
\* 5 seconds, rounded up to the resolution of the clock: a request is over
\* (answered, failed or timed out) before the clock has advanced by more
\* than one tick.
httpTimeout == 1
StatusOK == 200
dailyRatesURL == <<"https://www.cbr.ru/scripts/XML_daily.asp">>
dynamicRatesPrefix == "https://www.cbr.ru/scripts/XML_dynamic.asp?date_req1="
dynamicRatesMiddle == "&date_req2="
dynamicRatesSuffix == "&VAL_NM_RQ=R01235"

-----------------------------------------------------------------------------
(* Calendar: time.Time.AddDate and Format("02.01.2006").                   *)

StartDate == <<2024, 3, 3>>          \* the day the server starts
StartTick == TicksPerDay - 2         \* ... one hour before midnight

IsLeap(y) == (y % 4 = 0 /\ y % 100 # 0) \/ y % 400 = 0

DaysIn(y, m) ==
    IF m = 2 THEN (IF IsLeap(y) THEN 29 ELSE 28)
    ELSE IF m \in {4, 6, 9, 11} THEN 30 ELSE 31

\* time.Date's normalisation of a day-of-month that under- or overflows.
RECURSIVE Normalize(_, _, _)
Normalize(y, m, d) ==
    IF d < 1 THEN
        (IF m = 1 THEN Normalize(y - 1, 12, d + 31)
         ELSE Normalize(y, m - 1, d + DaysIn(y, m - 1)))
    ELSE IF d > DaysIn(y, m) THEN
        (IF m = 12 THEN Normalize(y + 1, 1, d - 31)
         ELSE Normalize(y, m + 1, d - DaysIn(y, m)))
    ELSE <<y, m, d>>

\* t.AddDate(0, 0, days) on a calendar date.
AddDate(date, days) == Normalize(date[1], date[2], date[3] + days)

\* The calendar date of the local clock at instant t.
DateOf(t) == AddDate(StartDate, (StartTick + t) \div TicksPerDay)

DigitChar(n) == ToString(n)

Pad2(n) == <<DigitChar(n \div 10), DigitChar(n % 10)>>

Pad4(n) ==
    <<DigitChar(n \div 1000), DigitChar((n \div 100) % 10),
      DigitChar((n \div 10) % 10), DigitChar(n % 10)>>

\* Format("02.01.2006"): day, month and year, zero-padded, with dots.
FormatDate(date) == Pad2(date[3]) \o <<".">> \o Pad2(date[2]) \o <<".">> \o Pad4(date[1])

\* fmt.Sprintf(dynamicRatesURL, startDate, endDate): the pieces of the format
\* and the two arguments, in the order they are concatenated.
Sprintf(startDate, endDate) ==
    <<dynamicRatesPrefix, startDate, dynamicRatesMiddle, endDate, dynamicRatesSuffix>>

\* A range of seven calendar days, today included.
HistoryStartSix(t) == AddDate(DateOf(t), -6)

\* Lines 162-166 of GetUsdRatesHistory: the bounds of the range and the URL.
HistoryStart(t) == AddDate(DateOf(t), -7)
HistoryEnd(t) == DateOf(t)
HistoryURL(t) == Sprintf(FormatDate(HistoryStart(t)), FormatDate(HistoryEnd(t)))

-----------------------------------------------------------------------------
(* Values.  A Go pointer or interface value is a record with a `nil` field. *)

Nil == [nil |-> TRUE]
NilError == [nil |-> TRUE]
Error(msg, code) == [nil |-> FALSE, msg |-> msg, code |-> code]

\* A float64 is the decimal num / 10^scale with num not a multiple of 10
\* (scale is negative for a multiple of 10), or zero; the strings of the
\* model are short enough for distinct decimals to be distinct float64
\* values, within the range of float64.
RECURSIVE Reduce(_, _)
Reduce(num, scale) ==
    IF num = 0 THEN [num |-> 0, scale |-> 0]
    ELSE IF num % 10 = 0 THEN Reduce(num \div 10, scale - 1)
    ELSE [num |-> num, scale |-> scale]

Zero == [num |-> 0, scale |-> 0]

-----------------------------------------------------------------------------
(* parseRate (src/main.go:184-191).                                        *)

Digits == {"0", "1", "2", "3", "4", "5", "6", "7", "8", "9"}

DigitVal(c) ==
    CASE c = "0" -> 0 [] c = "1" -> 1 [] c = "2" -> 2 [] c = "3" -> 3
      [] c = "4" -> 4 [] c = "5" -> 5 [] c = "6" -> 6 [] c = "7" -> 7
      [] c = "8" -> 8 [] c = "9" -> 9

\* strings.Replace(s, ",", ".", 1): the first comma, if any, becomes a dot.
RECURSIVE ReplaceFirstComma(_)
ReplaceFirstComma(s) ==
    IF s = <<>> THEN <<>>
    ELSE IF Head(s) = "," THEN <<".">> \o Tail(s)
    ELSE <<Head(s)>> \o ReplaceFirstComma(Tail(s))

\* strconv.ParseFloat(s, 64) on text without 'x', 'p' and '_' (no hexadecimal
\* form, no digit separators): "nan", or a signed "inf" or "infinity", in any
\* case of letters; or an optional sign, then digits with at most one '.' and
\* at least one digit, then an optional exponent: 'e', an optional sign and
\* at least one digit.
Lower(c) ==
    CASE c = "N" -> "n" [] c = "A" -> "a" [] c = "I" -> "i" [] c = "F" -> "f"
      [] c = "T" -> "t" [] c = "Y" -> "y" [] c = "E" -> "e" [] OTHER -> c

LowerSeq(s) == [i \in 1..Len(s) |-> Lower(s[i])]

Unsigned(s) == IF s # <<>> /\ Head(s) \in {"+", "-"} THEN Tail(s) ELSE s

IsNaN(s) == LowerSeq(s) = <<"n", "a", "n">>

IsInf(s) ==
    LowerSeq(Unsigned(s)) \in {<<"i", "n", "f">>, <<"i", "n", "f", "i", "n", "i", "t", "y">>}

NaN == [special |-> "NaN"]
Inf(sign) == [special |-> "Inf", sign |-> sign]

\* The index of the exponent mark in b, or 0.
ExpMark(b) ==
    IF \E i \in 1..Len(b) : Lower(b[i]) = "e"
    THEN CHOOSE i \in 1..Len(b) : Lower(b[i]) = "e" /\ \A j \in 1..(i - 1) : Lower(b[j]) # "e"
    ELSE 0

MantissaPart(b) == IF ExpMark(b) = 0 THEN b ELSE SubSeq(b, 1, ExpMark(b) - 1)
ExponentPart(b) == IF ExpMark(b) = 0 THEN <<"0">> ELSE SubSeq(b, ExpMark(b) + 1, Len(b))

IsNumber(s) ==
    LET b == MantissaPart(Unsigned(s))
        x == Unsigned(ExponentPart(Unsigned(s)))
    IN /\ \A i \in 1..Len(b) : b[i] \in Digits \cup {"."}
       /\ Cardinality({i \in 1..Len(b) : b[i] = "."}) <= 1
       /\ \E i \in 1..Len(b) : b[i] \in Digits
       /\ x # <<>>
       /\ \A i \in 1..Len(x) : x[i] \in Digits

RECURSIVE Mantissa(_, _)
Mantissa(b, acc) ==
    IF b = <<>> THEN acc
    ELSE IF Head(b) = "." THEN Mantissa(Tail(b), acc)
    ELSE Mantissa(Tail(b), 10 * acc + DigitVal(Head(b)))

FractionDigits(b) ==
    IF \E i \in 1..Len(b) : b[i] = "."
    THEN Len(b) - (CHOOSE i \in 1..Len(b) : b[i] = ".")
    ELSE 0

\* The decimal num * 10^exp.
Scaled(num, exp) == Reduce(num, 0 - exp)

ParseFloat(s) ==
    IF IsNaN(s) THEN [value |-> NaN, ok |-> TRUE]
    ELSE IF IsInf(s)
         THEN [value |-> Inf(IF Head(s) = "-" THEN -1 ELSE 1), ok |-> TRUE]
    ELSE IF ~IsNumber(s) THEN [value |-> Zero, ok |-> FALSE]
    ELSE LET b == MantissaPart(Unsigned(s))
             x == ExponentPart(Unsigned(s))
             m == Mantissa(b, 0)
             sign == IF Head(s) = "-" THEN -1 ELSE 1
             e == (IF Head(x) = "-" THEN -1 ELSE 1) * Mantissa(Unsigned(x), 0)
         IN [value |-> Scaled(sign * m, e - FractionDigits(b)), ok |-> TRUE]

parseRate(rateStr) ==
    LET r == ParseFloat(ReplaceFirstComma(rateStr)) IN
    IF ~r.ok THEN [rate |-> Zero, err |-> Error("failed to parse rate", 0)]
    ELSE [rate |-> r.value, err |-> NilError]

-----------------------------------------------------------------------------
(* Cache (src/main.go:48-80).  Get and Set run under the cache's RWMutex;  *)
(* CacheGet and CacheSet* give a whole call as one step, the lock-level    *)
(* cache further down takes the calls statement by statement.             *)

\* NewCache: two empty maps.
EmptyMap == <<>>

\* sync.RWMutex: the worker that holds the write lock, the worker that has
\* announced a Lock and waits for the readers to leave, and the workers that
\* hold the read lock; 0 is no worker.
Unlocked == [writer |-> 0, pending |-> 0, readers |-> {}]

\* RLock that never waits.
CanRLockAlways(m) == TRUE

\* RLock returns when no writer holds the lock or has announced itself.
CanRLock(m) == m.writer = 0 /\ m.pending = 0

\* Lock gets past the other writers when none holds the lock or has
\* announced itself, and returns when the readers have left.
CanLock(m) == m.writer = 0 /\ m.pending = 0

\* Lock that does not wait for the readers.
DrainedAlways(m) == TRUE

Drained(m) == m.readers = {}

Put(f, k, v) == [x \in DOMAIN f \cup {k} |-> IF x = k THEN v ELSE f[x]]

\* Cache.Get with the entry expired from its expiration instant on.
CacheGetAtOrAfter(d, e, key, t) ==
    IF key \notin DOMAIN e \/ t >= e[key]
    THEN [value |-> Nil, found |-> FALSE]
    ELSE IF key \in DOMAIN d
         THEN [value |-> d[key], found |-> TRUE]
         ELSE [value |-> Nil, found |-> FALSE]

\* Cache.Get with the comparison turned round: expired before the instant.
CacheGetBefore(d, e, key, t) ==
    IF key \notin DOMAIN e \/ t < e[key]
    THEN [value |-> Nil, found |-> FALSE]
    ELSE IF key \in DOMAIN d
         THEN [value |-> d[key], found |-> TRUE]
         ELSE [value |-> Nil, found |-> FALSE]

\* Cache.Get at instant t: (value, found).
CacheGet(d, e, key, t) ==
    IF key \notin DOMAIN e \/ t > e[key]
    THEN [value |-> Nil, found |-> FALSE]
    ELSE IF key \in DOMAIN d
         THEN [value |-> d[key], found |-> TRUE]
         ELSE [value |-> Nil, found |-> FALSE]

\* Cache.Set that writes the expiration only.
CacheSetDataNone(d, key, value) == d

\* Cache.Set that keeps the value of a key already present.
CacheSetDataIfAbsent(d, key, value) == IF key \in DOMAIN d THEN d ELSE Put(d, key, value)

\* Cache.Set at instant t: the two maps after the call.
CacheSetData(d, key, value) == Put(d, key, value)
CacheSetExpiration(e, key, ttl, t) == Put(e, key, t + ttl)

-----------------------------------------------------------------------------
(* Documents (src/main.go:27-46) and the XML decoder.                      *)

\* An XML body the upstream sends: a root element with a Date attribute and
\* child elements, or text that is no XML, in some character set.
Valute(code, value) == [tag |-> "Valute", Date |-> "", CharCode |-> code, Value |-> value]
Record(date, value) == [tag |-> "Record", Date |-> date, CharCode |-> "", Value |-> value]
Body(date, children) ==
    [wellFormed |-> TRUE, charset |-> "windows-1251", Date |-> date, children |-> children]
BrokenBody == [wellFormed |-> FALSE, charset |-> "windows-1251", Date |-> "", children |-> <<>>]
UnknownCharsetBody == [wellFormed |-> TRUE, charset |-> "x-unknown", Date |-> "", children |-> <<>>]
KnownCharsets == {"windows-1251", "utf-8"}

RECURSIVE Children(_, _)
Children(elems, tag) ==
    IF elems = <<>> THEN <<>>
    ELSE IF Head(elems).tag = tag
         THEN <<Head(elems)>> \o Children(Tail(elems), tag)
         ELSE Children(Tail(elems), tag)

\* A value that is a *ValCurs pointing to a document.
IsValCurs(v) == DOMAIN v = {"nil", "Date", "Valutes", "Records"} /\ ~v.nil

\* decoder.Decode(&valCurs): the struct the body unmarshals into.
Decodable(body) == body.wellFormed /\ body.charset \in KnownCharsets

Decode(body) ==
    LET vs == Children(body.children, "Valute")
        rs == Children(body.children, "Record")
    IN [nil |-> FALSE, Date |-> body.Date,
        Valutes |-> [i \in 1..Len(vs) |-> [CharCode |-> vs[i].CharCode, Value |-> vs[i].Value]],
        Records |-> [i \in 1..Len(rs) |-> [Date |-> rs[i].Date, Value |-> rs[i].Value]]]

-----------------------------------------------------------------------------
(* fetchXML after the request was sent (src/main.go:111-131): what it      *)
(* returns for the outcome resp of the request, and whether it stores.     *)

NetError(timeout) == [kind |-> "error", timeout |-> timeout]
Response(status, body) == [kind |-> "response", status |-> status, body |-> body]
NoResponse == [kind |-> "none"]

Fetched(valCurs) == [valCurs |-> valCurs, err |-> NilError]
Failed(err) == [valCurs |-> Nil, err |-> err]

\* fetchXML accepting every 2xx status.
fetchXMLResultAny2xx(resp) ==
    IF resp.kind = "error" THEN Failed(Error("failed to fetch data", 0))
    ELSE IF resp.status < 200 \/ resp.status > 299
         THEN Failed(Error("unexpected status code", resp.status))
    ELSE IF ~Decodable(resp.body) THEN Failed(Error("failed to parse XML", 0))
    ELSE Fetched(Decode(resp.body))

fetchXMLResult(resp) ==
    IF resp.kind = "error" THEN Failed(Error("failed to fetch data", 0))
    ELSE IF resp.status # StatusOK
         THEN Failed(Error("unexpected status code", resp.status))
    ELSE IF ~Decodable(resp.body) THEN Failed(Error("failed to parse XML", 0))
    ELSE Fetched(Decode(resp.body))

\* fetchXML storing whatever it decoded as soon as a response has arrived.
fetchXMLStoresEarly(resp) == resp.kind = "response"

\* Line 129 is reached exactly when no earlier return was taken.
fetchXMLStores(resp) == fetchXMLResult(resp).err.nil

-----------------------------------------------------------------------------
(* The queries of CurrencyService (src/main.go:138-182), as functions of   *)
(* what fetchXML returned to them.                                         *)

\* The scan passing over a matching entry whose value does not parse.
RECURSIVE ScanUsdSkipBad(_)
ScanUsdSkipBad(valutes) ==
    IF valutes = <<>> THEN [rate |-> Zero, err |-> Error("USD rate not found", 0)]
    ELSE IF Head(valutes).CharCode = "USD" /\ parseRate(Head(valutes).Value).err.nil
         THEN parseRate(Head(valutes).Value)
    ELSE ScanUsdSkipBad(Tail(valutes))

\* The scan with the last matching entry winning.
RECURSIVE ScanUsdLast(_)
ScanUsdLast(valutes) ==
    IF valutes = <<>> THEN [rate |-> Zero, err |-> Error("USD rate not found", 0)]
    ELSE IF valutes[Len(valutes)].CharCode = "USD"
         THEN parseRate(valutes[Len(valutes)].Value)
    ELSE ScanUsdLast(SubSeq(valutes, 1, Len(valutes) - 1))

RECURSIVE ScanUsd(_)
ScanUsd(valutes) ==
    IF valutes = <<>> THEN [rate |-> Zero, err |-> Error("USD rate not found", 0)]
    ELSE IF Head(valutes).CharCode = "USD" THEN parseRate(Head(valutes).Value)
    ELSE ScanUsd(Tail(valutes))

GetUsdRate(res) ==
    IF ~res.err.nil THEN [rate |-> Zero, err |-> res.err]
    ELSE ScanUsd(res.valCurs.Valutes)

\* GetCursDate accepting only a date it knows.
GetCursDateValidated(res) ==
    IF ~res.err.nil THEN [date |-> "", err |-> res.err]
    ELSE IF res.valCurs.Date # "02.03.2024"
         THEN [date |-> "", err |-> Error("invalid date", 0)]
    ELSE [date |-> res.valCurs.Date, err |-> NilError]

GetCursDate(res) ==
    IF ~res.err.nil THEN [date |-> "", err |-> res.err]
    ELSE [date |-> res.valCurs.Date, err |-> NilError]

\* The loop leaving at the first record that does not parse.
RECURSIVE MapRecordsStop(_)
MapRecordsStop(records) ==
    IF records = <<>> THEN <<>>
    ELSE LET r == parseRate(Head(records).Value) IN
         IF ~r.err.nil THEN <<>>
         ELSE <<[date |-> Head(records).Date, rate |-> r.rate]>>
                  \o MapRecordsStop(Tail(records))

RECURSIVE MapRecords(_)
MapRecords(records) ==
    IF records = <<>> THEN <<>>
    ELSE LET r == parseRate(Head(records).Value) IN
         IF ~r.err.nil THEN MapRecords(Tail(records))
         ELSE <<[date |-> Head(records).Date, rate |-> r.rate]>>
                  \o MapRecords(Tail(records))

GetUsdRatesHistory(res) ==
    IF ~res.err.nil THEN [history |-> <<>>, err |-> res.err]
    ELSE [history |-> MapRecords(res.valCurs.Records), err |-> NilError]

-----------------------------------------------------------------------------
(* The state after construction (NewCurrencyService, NewCache, main).      *)

Workers == 1..NumWorkers

IdleLoc ==
    [call |-> "none", url |-> <<>>, resp |-> NoResponse, sentAt |-> 0,
     calls |-> <<>>, ret |-> Failed(NilError), course |-> Zero]
NoOutput == [route |-> "none"]
NoGet == [called |-> FALSE]
NoCall == [call |-> "none"]

ServerIdle ==
    /\ pc = [w \in Workers |-> "idle"]
    /\ loc = [w \in Workers |-> IdleLoc]
    /\ out = [w \in Workers |-> NoOutput]

CacheHarnessIdle == hist = EmptyMap /\ got = NoGet
QueryHarnessIdle == qin = Failed(NilError) /\ qout = NoCall

\* The clock advances.  A request in flight is over within httpTimeout, so
\* the clock does not pass the deadline of a worker that still waits.
Tick ==
    /\ now < MaxElapsed
    /\ \A w \in Workers : pc[w] = "await" => now < loc[w].sentAt + httpTimeout
    /\ now' = now + 1
    /\ got' = NoGet
    /\ UNCHANGED <<mu, data, expiration, pc, loc, out, hist, qin, qout>>

-----------------------------------------------------------------------------
(* Cache harness: a client that calls Set and Get directly, with any key,  *)
(* value and ttl, and remembers its last Set per key and its last Get.     *)

DailyA == Body("02.03.2024", <<Valute("EUR", <<"1", "0", "0", ",", "0", "0">>),
                               Valute("USD", <<"9", "1", ",", "2", "3">>)>>)
DailyB == Body("05.03.2024", <<Valute("USD", <<"9", "2", ",", "5", "0">>)>>)
HistoryA ==
    Body("", <<Record("01.03.2024", <<"9", "1", ",", "0", "0">>),
               Record("02.03.2024", <<"b", "a", "d">>),
               Record("03.03.2024", <<"9", "2", ",", "5", "0">>)>>)

HarnessKeys == {dailyRatesURL, HistoryURL(0)}
HarnessValues == {Decode(DailyA), Decode(DailyB)}
HarnessTTLs == (0 - 1)..MaxTTL

SetCall(k, v, ttl) ==
    /\ data' = CacheSetData(data, k, v)
    /\ expiration' = CacheSetExpiration(expiration, k, ttl, now)
    /\ hist' = Put(hist, k, [value |-> v, ttl |-> ttl, at |-> now,
                             prior |-> IF k \in DOMAIN data THEN data[k] ELSE Nil])
    /\ got' = NoGet
    /\ UNCHANGED <<mu, now, pc, loc, out, qin, qout>>

GetCall(k) ==
    /\ ~got.called
    /\ LET r == CacheGet(data, expiration, k, now) IN
       got' = [called |-> TRUE, key |-> k, at |-> now,
               value |-> r.value, found |-> r.found]
    /\ UNCHANGED <<mu, now, data, expiration, pc, loc, out, hist, qin, qout>>

CacheInit ==
    /\ now = 0
    /\ data = EmptyMap
    /\ expiration = EmptyMap
    /\ mu = Unlocked
    /\ ServerIdle
    /\ CacheHarnessIdle
    /\ QueryHarnessIdle

CacheNext ==
    \/ Tick
    \/ \E k \in HarnessKeys, v \in HarnessValues, ttl \in HarnessTTLs : SetCall(k, v, ttl)
    \/ \E k \in HarnessKeys : GetCall(k)

SpecCache == CacheInit /\ [][CacheNext]_vars

\* The expiration instant of the last Set on key k: its time plus its ttl.
ExpiresAt(k) == hist[k].at + hist[k].ttl

\* C1 as stated: Get finds nothing when the key was never set or the time is
\* at or after the expiration instant, the instant itself included, and finds
\* the entry only strictly before it.
C1_GetMissesAtOrAfterExpiry ==
    got.called =>
        /\ (got.key \notin DOMAIN hist \/ got.at >= ExpiresAt(got.key))
               => (~got.found /\ got.value = Nil)
        /\ got.found => (got.key \in DOMAIN hist /\ got.at < ExpiresAt(got.key))

\* C1 amended: Get finds nothing, and returns no value, when the key was never
\* set or the time is strictly after the expiration instant; at every time up
\* to and including that instant it finds the value of the last Set.
C1_GetMissesAfterExpiry ==
    got.called =>
        IF got.key \notin DOMAIN hist \/ got.at > ExpiresAt(got.key)
        THEN ~got.found /\ got.value = Nil
        ELSE got.found /\ got.value = hist[got.key].value

\* A Get of an entry whose expiration has passed and that is still stored.
C1_Witness ==
    /\ got.called
    /\ got.key \in DOMAIN data
    /\ got.at > ExpiresAt(got.key)
    /\ ~got.found

\* C2: after Set(k, v, ttl) with ttl > 0, a Get(k) before the ttl has elapsed,
\* with no other Set on k in between, returns (v, true), whatever was stored
\* for k or other keys before the Set.
C2_SetThenGet ==
    (/\ got.called
     /\ got.key \in DOMAIN hist
     /\ hist[got.key].ttl > 0
     /\ got.at < ExpiresAt(got.key))
        => (got.found /\ got.value = hist[got.key].value)

\* A Get, some time after a Set that replaced a different value, with
\* another key stored as well.
C2_Witness ==
    /\ got.called
    /\ got.found
    /\ got.at > hist[got.key].at
    /\ hist[got.key].prior # Nil
    /\ hist[got.key].prior # got.value
    /\ \E k \in DOMAIN data : k # got.key

-----------------------------------------------------------------------------
(* The server: each worker handles one request at a time (setupRoutes,     *)
(* src/main.go:193-221).  A handler is cut where it reads or writes the    *)
(* cache and where it waits for the network; `ret` holds what the handler's *)
(* last fetchXML call returned, `calls` says of each fetchXML call of the  *)
(* handler whether the cache answered it ("hit") or a request was sent     *)
(* ("miss").                                                               *)

Statuses == {200, 201, 204, 404, 500}

\* What the upstream may answer for a URL: the request fails or times out,
\* or a response arrives with some status and some body.
Bodies(url) ==
    IF url = dailyRatesURL
    THEN {DailyA, DailyB, BrokenBody, UnknownCharsetBody}
    ELSE {HistoryA, BrokenBody, UnknownCharsetBody}

Outcomes(url) ==
    {NetError(TRUE), NetError(FALSE)}
        \cup {Response(st, b) : st \in Statuses, b \in Bodies(url)}

\* A few of these outcomes, for the server with concurrent workers.
FewOutcomes(url) ==
    {NetError(TRUE), Response(404, BrokenBody)}
        \cup {Response(StatusOK, b) : b \in Bodies(url) \ {BrokenBody, UnknownCharsetBody}}

\* GET "/": the handler calls GetUsdRate, which calls fetchXML(dailyRatesURL).
BeginIndex(w) ==
    /\ pc[w] = "idle"
    /\ loc' = [loc EXCEPT ![w] = [IdleLoc EXCEPT !.call = "rate", !.url = dailyRatesURL]]
    /\ pc' = [pc EXCEPT ![w] = "lookup"]
    /\ UNCHANGED <<mu, now, data, expiration, out, hist, got, qin, qout>>

\* GET "/history": GetUsdRatesHistory builds the URL from the current date
\* and calls fetchXML with it.
BeginHistory(w) ==
    /\ pc[w] = "idle"
    /\ loc' = [loc EXCEPT ![w] = [IdleLoc EXCEPT !.call = "history", !.url = HistoryURL(now)]]
    /\ pc' = [pc EXCEPT ![w] = "lookup"]
    /\ UNCHANGED <<mu, now, data, expiration, out, hist, got, qin, qout>>

\* fetchXML dropping the entry it finds expired.
fetchXMLLookupEvict(w) ==
    /\ pc[w] = "lookup"
    /\ LET r == CacheGet(data, expiration, loc[w].url, now) IN
       IF r.found
       THEN /\ loc' = [loc EXCEPT ![w].ret = Fetched(r.value),
                                  ![w].calls = Append(@, "hit")]
            /\ pc' = [pc EXCEPT ![w] = "ret"]
            /\ UNCHANGED <<data, expiration>>
       ELSE /\ loc' = [loc EXCEPT ![w].sentAt = now, ![w].calls = Append(@, "miss")]
            /\ pc' = [pc EXCEPT ![w] = "await"]
            /\ data' = [k \in DOMAIN data \ {loc[w].url} |-> data[k]]
            /\ expiration' = [k \in DOMAIN expiration \ {loc[w].url} |-> expiration[k]]
    /\ UNCHANGED <<mu, now, out, hist, got, qin, qout>>

\* fetchXML joining a request another worker has in flight for the same URL:
\* it sends none of its own.
fetchXMLLookupSingleFlight(w) ==
    /\ pc[w] = "lookup"
    /\ LET r == CacheGet(data, expiration, loc[w].url, now) IN
       IF r.found
       THEN /\ loc' = [loc EXCEPT ![w].ret = Fetched(r.value),
                                  ![w].calls = Append(@, "hit")]
            /\ pc' = [pc EXCEPT ![w] = "ret"]
       ELSE IF \E v \in Workers \ {w} : pc[v] \in {"await", "recv"} /\ loc[v].url = loc[w].url
       THEN /\ loc' = [loc EXCEPT ![w].ret = Failed(Error("joined", 0)),
                                  ![w].calls = Append(@, "join")]
            /\ pc' = [pc EXCEPT ![w] = "ret"]
       ELSE /\ loc' = [loc EXCEPT ![w].sentAt = now, ![w].calls = Append(@, "miss")]
            /\ pc' = [pc EXCEPT ![w] = "await"]
    /\ UNCHANGED <<mu, now, data, expiration, out, hist, got, qin, qout>>

\* fetchXML, lines 97-111: the cache lookup; on a hit the cached document is
\* returned, on a miss the request is sent.  The type assertion of line 98
\* panics when the cached value is not a *ValCurs.
fetchXMLLookup(w) ==
    /\ pc[w] = "lookup"
    /\ LET r == CacheGet(data, expiration, loc[w].url, now) IN
       IF r.found /\ ~IsValCurs(r.value)
       THEN /\ loc' = loc
            /\ pc' = [pc EXCEPT ![w] = "panic"]
       ELSE IF r.found
       THEN /\ loc' = [loc EXCEPT ![w].ret = Fetched(r.value),
                                  ![w].calls = Append(@, "hit")]
            /\ pc' = [pc EXCEPT ![w] = "ret"]
       ELSE /\ loc' = [loc EXCEPT ![w].sentAt = now, ![w].calls = Append(@, "miss")]
            /\ pc' = [pc EXCEPT ![w] = "await"]
    /\ UNCHANGED <<mu, now, data, expiration, out, hist, got, qin, qout>>

\* The network and the upstream: client.Do returns an error or a response.
Upstream(w, all) ==
    /\ pc[w] = "await"
    /\ \E resp \in (IF all THEN Outcomes(loc[w].url) ELSE FewOutcomes(loc[w].url)) :
           loc' = [loc EXCEPT ![w].resp = resp]
    /\ pc' = [pc EXCEPT ![w] = "recv"]
    /\ UNCHANGED <<mu, now, data, expiration, out, hist, got, qin, qout>>

\* fetchXML falling back, when the request fails, on whatever document the
\* store still holds for the URL.
fetchXMLReceiveStale(w) ==
    /\ pc[w] = "recv"
    /\ LET resp == loc[w].resp
           res == fetchXMLResult(resp)
       IN /\ IF fetchXMLStores(resp)
             THEN /\ data' = CacheSetData(data, loc[w].url, res.valCurs)
                  /\ expiration' =
                         CacheSetExpiration(expiration, loc[w].url, cacheExpiration, now)
             ELSE UNCHANGED <<data, expiration>>
          /\ loc' = [loc EXCEPT ![w].ret =
                         IF ~res.err.nil /\ loc[w].url \in DOMAIN data
                         THEN Fetched(data[loc[w].url]) ELSE res,
                                ![w].resp = NoResponse]
    /\ pc' = [pc EXCEPT ![w] = "ret"]
    /\ UNCHANGED <<mu, now, out, hist, got, qin, qout>>

\* fetchXML, lines 112-131: the checks, the decoding and the Set.
fetchXMLReceive(w) ==
    /\ pc[w] = "recv"
    /\ LET resp == loc[w].resp
           res == fetchXMLResult(resp)
       IN /\ IF fetchXMLStores(resp)
             THEN /\ data' = CacheSetData(data, loc[w].url, res.valCurs)
                  /\ expiration' =
                         CacheSetExpiration(expiration, loc[w].url, cacheExpiration, now)
             ELSE UNCHANGED <<data, expiration>>
          /\ loc' = [loc EXCEPT ![w].ret = res, ![w].resp = NoResponse]
    /\ pc' = [pc EXCEPT ![w] = "ret"]
    /\ UNCHANGED <<mu, now, out, hist, got, qin, qout>>

\* Handler of "/", lines 195-201: GetUsdRate has its document; an error is
\* logged and the course is 0; then GetCursDate calls fetchXML again.
ReturnRate(w) ==
    /\ pc[w] = "ret"
    /\ loc[w].call = "rate"
    /\ LET r == GetUsdRate(loc[w].ret) IN
       loc' = [loc EXCEPT ![w].course = IF r.err.nil THEN r.rate ELSE Zero,
                          ![w].call = "date"]
    /\ pc' = [pc EXCEPT ![w] = "lookup"]
    /\ UNCHANGED <<mu, now, data, expiration, out, hist, got, qin, qout>>

\* Handler of "/", lines 201-210: GetCursDate has its document; an error is
\* logged and the date is empty; the page is rendered.
ReturnDate(w) ==
    /\ pc[w] = "ret"
    /\ loc[w].call = "date"
    /\ LET r == GetCursDate(loc[w].ret) IN
       out' = [out EXCEPT ![w] = [route |-> "/", course |-> loc[w].course,
                                  date |-> IF r.err.nil THEN r.date ELSE ""]]
    /\ pc' = [pc EXCEPT ![w] = "done"]
    /\ UNCHANGED <<mu, now, data, expiration, loc, hist, got, qin, qout>>

\* Handler of "/history", lines 214-219: the series as JSON, or status 500
\* with the error.
ReturnHistory(w) ==
    /\ pc[w] = "ret"
    /\ loc[w].call = "history"
    /\ LET r == GetUsdRatesHistory(loc[w].ret) IN
       out' = [out EXCEPT ![w] =
                  IF r.err.nil
                  THEN [route |-> "/history", status |-> 200,
                        history |-> r.history, error |-> NilError]
                  ELSE [route |-> "/history", status |-> 500,
                        history |-> <<>>, error |-> r.err]]
    /\ pc' = [pc EXCEPT ![w] = "done"]
    /\ UNCHANGED <<mu, now, data, expiration, loc, hist, got, qin, qout>>

\* The response is sent and the worker is free for the next request.
Finish(w) ==
    /\ pc[w] = "done"
    /\ pc' = [pc EXCEPT ![w] = "idle"]
    /\ loc' = [loc EXCEPT ![w] = IdleLoc]
    /\ out' = [out EXCEPT ![w] = NoOutput]
    /\ UNCHANGED <<mu, now, data, expiration, hist, got, qin, qout>>

Step(w, all) ==
    \/ BeginIndex(w)
    \/ BeginHistory(w)
    \/ fetchXMLLookup(w)
    \/ Upstream(w, all)
    \/ fetchXMLReceive(w)
    \/ ReturnRate(w)
    \/ ReturnDate(w)
    \/ ReturnHistory(w)
    \/ Finish(w)

Init ==
    /\ now = 0
    /\ data = EmptyMap
    /\ expiration = EmptyMap
    /\ mu = Unlocked
    /\ ServerIdle
    /\ CacheHarnessIdle
    /\ QueryHarnessIdle

Next == Tick \/ \E w \in Workers : Step(w, FALSE)

Spec == Init /\ [][Next]_vars

\* The same server with its requests handled one after the other.
SeqNext == Tick \/ Step(1, TRUE)

SpecSeq == Init /\ [][SeqNext]_vars

-----------------------------------------------------------------------------
(* Claims about fetchXML, checked on the sequential server.                *)

\* Worker w's fetchXML call returns in this step, after a request.
Returns(w) == pc[w] = "recv" /\ pc'[w] = "ret"

\* C3: when fetchXML returns an error, the cache is as it was before the
\* call: no step of the failed call (the lookup, the wait for the network,
\* the checks and the decoding) changes a value or an expiration or adds an
\* entry.
C3_FailedFetchLeavesCache ==
    [][\A w \in Workers :
          /\ (pc[w] \in {"lookup", "await"} /\ pc'[w] # pc[w])
                 => (data' = data /\ expiration' = expiration)
          /\ (Returns(w) /\ ~loc'[w].ret.err.nil)
                 => (data' = data /\ expiration' = expiration)]_vars

\* A fetch has failed while an entry for its URL is in the store.
C3_Witness ==
    \E w \in Workers :
        /\ pc[w] = "ret"
        /\ ~loc[w].ret.err.nil
        /\ loc[w].url \in DOMAIN data
        /\ now > expiration[loc[w].url]

\* C4: after a fetchXML(url) that missed and succeeded, a second fetchXML(url)
\* called before the TTL of the stored entry has elapsed sends no request and
\* returns the document the first call stored: one request for the two calls.
\* First the two calls of one "/" handler, then any call, of any handler and
\* for any URL, that finds an entry whose TTL has not elapsed.
C4_SecondFetchFromCache ==
    [][/\ (/\ pc[1] = "lookup"
           /\ loc[1].call = "date"
           /\ loc[1].calls = <<"miss">>
           /\ loc[1].ret.err.nil
           /\ now < expiration[loc[1].url]
           /\ pc'[1] # pc[1])
              => (/\ pc'[1] = "ret"
                  /\ loc'[1].calls = <<"miss", "hit">>
                  /\ loc'[1].ret = loc[1].ret
                  /\ loc'[1].ret.valCurs = data[loc[1].url])
       /\ (/\ pc[1] = "lookup"
           /\ loc[1].url \in DOMAIN expiration
           /\ now < expiration[loc[1].url]
           /\ pc'[1] # pc[1])
              => (/\ pc'[1] = "ret"
                  /\ loc'[1].calls = Append(loc[1].calls, "hit")
                  /\ loc'[1].ret = Fetched(data[loc[1].url]))]_vars

\* The second call of a handler was answered by the cache, later than the
\* first call stored the document.
C4_Witness ==
    /\ pc[1] = "ret"
    /\ loc[1].calls = <<"miss", "hit">>
    /\ loc[1].ret.err.nil
    /\ now > loc[1].sentAt
    /\ now < expiration[loc[1].url]

\* C5 as stated: a response is rejected for its status exactly when the
\* status is not 2xx, with the status in the error; every 2xx response with
\* a well-formed body is decoded, stored and returned.
C5_RejectsExactlyNon2xx ==
    [][\A w \in Workers :
          (Returns(w) /\ loc[w].resp.kind = "response") =>
              LET st == loc[w].resp.status
                  r == loc'[w].ret
                  rejected == ~r.err.nil /\ r.err.msg = "unexpected status code"
              IN /\ rejected <=> (st < 200 \/ st > 299)
                 /\ rejected => r.err.code = st
                 /\ (st >= 200 /\ st <= 299 /\ Decodable(loc[w].resp.body))
                        => (/\ r.err.nil
                            /\ r.valCurs = Decode(loc[w].resp.body)
                            /\ loc[w].url \in DOMAIN data'
                            /\ data'[loc[w].url] = r.valCurs)]_vars

\* C5 amended: a response is rejected for its status exactly when the status
\* is not 200, with the status in the error; a 200 response with a decodable
\* body is decoded, stored and returned.
C5_RejectsExactlyNot200 ==
    [][\A w \in Workers :
          (Returns(w) /\ loc[w].resp.kind = "response") =>
              LET st == loc[w].resp.status
                  r == loc'[w].ret
                  rejected == ~r.err.nil /\ r.err.msg = "unexpected status code"
              IN /\ rejected <=> st # 200
                 /\ rejected => r.err.code = st
                 /\ (st = 200 /\ Decodable(loc[w].resp.body))
                        => (/\ r.err.nil
                            /\ r.valCurs = Decode(loc[w].resp.body)
                            /\ loc[w].url \in DOMAIN data'
                            /\ data'[loc[w].url] = r.valCurs)]_vars

\* A 2xx response other than 200, with a well-formed body, was rejected.
C5_Witness ==
    \E w \in Workers :
        /\ pc[w] = "ret"
        /\ ~loc[w].ret.err.nil
        /\ loc[w].ret.err.msg = "unexpected status code"
        /\ loc[w].ret.err.code = 201

\* C8: a fetchXML that succeeds on a miss at time t stores its document under
\* its URL, and under no other key, with a TTL of one hour: a Get of the URL
\* hits with that document at every time before t + 1 hour and misses at
\* every time after it; and an entry changes only by such a store on its key.
C8_StoredForOneHour ==
    [][/\ \A w \in Workers :
            (Returns(w) /\ loc'[w].ret.err.nil) =>
                LET url == loc[w].url
                    doc == loc'[w].ret.valCurs
                IN /\ DOMAIN data' = DOMAIN data \cup {url}
                   /\ DOMAIN expiration' = DOMAIN expiration \cup {url}
                   /\ \A k \in DOMAIN data \ {url} : data'[k] = data[k]
                   /\ \A k \in DOMAIN expiration \ {url} : expiration'[k] = expiration[k]
                   /\ \A t \in 0..(MaxElapsed + 2 * Hour) :
                        /\ (t >= now /\ t < now + Hour) =>
                               CacheGet(data', expiration', url, t)
                                   = [value |-> doc, found |-> TRUE]
                        /\ t > now + Hour =>
                               CacheGet(data', expiration', url, t)
                                   = [value |-> Nil, found |-> FALSE]
       /\ \A k \in DOMAIN data' :
            (k \notin DOMAIN data \/ data'[k] # data[k] \/ expiration'[k] # expiration[k])
                => \E w \in Workers :
                       Returns(w) /\ loc[w].url = k /\ loc'[w].ret.err.nil]_vars

\* A document was just fetched and stored while another key is in the store.
C8_Witness ==
    \E w \in Workers :
        /\ pc[w] = "ret"
        /\ loc[w].calls = <<"miss">>
        /\ loc[w].ret.err.nil
        /\ data[loc[w].url] = loc[w].ret.valCurs
        /\ expiration[loc[w].url] = now + Hour
        /\ \E k \in DOMAIN data : k # loc[w].url

-----------------------------------------------------------------------------
(* Query harness: each query of CurrencyService is called once, at some    *)
(* date, with fetchXML handing back an error or some document.             *)

SeqsUpTo(S, n) == UNION {[1..k -> S] : k \in 0..n}

ValuteChoices ==
    {[CharCode |-> "USD", Value |-> <<"9", "1", ",", "2", "3">>],
     [CharCode |-> "USD", Value |-> <<"9", "2", ".", "5", "0">>],
     [CharCode |-> "USD", Value |-> <<"b", "a", "d">>],
     [CharCode |-> "EUR", Value |-> <<"1", "0", "0", ",", "0", "0">>],
     [CharCode |-> "usd", Value |-> <<"1", ",", "0", "0">>]}

RecordChoices ==
    {[Date |-> "01.01.2024", Value |-> <<"9", "1", ",", "0", "0">>],
     [Date |-> "02.01.2024", Value |-> <<"b", "a", "d">>],
     [Date |-> "03.01.2024", Value |-> <<"9", "2", ",", "5", "0">>],
     [Date |-> "", Value |-> <<>>]}

DocDates == {"02.03.2024", "2024-03-02"}

QueryDocs ==
    {[nil |-> FALSE, Date |-> d, Valutes |-> vs, Records |-> <<>>] :
        d \in DocDates, vs \in SeqsUpTo(ValuteChoices, MaxEntries)}
    \cup
    {[nil |-> FALSE, Date |-> "", Valutes |-> <<>>, Records |-> rs] :
        rs \in SeqsUpTo(RecordChoices, MaxEntries)}

QueryInputs ==
    {Fetched(d) : d \in QueryDocs}
        \cup {fetchXMLResult(NetError(TRUE)), fetchXMLResult(Response(404, BrokenBody)),
              fetchXMLResult(Response(StatusOK, BrokenBody))}

\* The document of the specification's history example.
ExampleHistory ==
    Fetched([nil |-> FALSE, Date |-> "", Valutes |-> <<>>,
             Records |-> <<[Date |-> "01.01.2024", Value |-> <<"9", "1", ",", "0", "0">>],
                           [Date |-> "02.01.2024", Value |-> <<"b", "a", "d">>],
                           [Date |-> "03.01.2024", Value |-> <<"9", "2", ",", "5", "0">>]>>])

\* Midnight of every day from StartDate on.
DayStarts == {d * TicksPerDay - StartTick : d \in 1..MaxDays} \cup {0}

CallGetUsdRate ==
    /\ qout.call = "none"
    /\ LET r == GetUsdRate(qin) IN
       qout' = [call |-> "GetUsdRate", rate |-> r.rate, err |-> r.err]
    /\ UNCHANGED <<mu, now, data, expiration, pc, loc, out, hist, got, qin>>

CallGetCursDate ==
    /\ qout.call = "none"
    /\ LET r == GetCursDate(qin) IN
       qout' = [call |-> "GetCursDate", date |-> r.date, err |-> r.err]
    /\ UNCHANGED <<mu, now, data, expiration, pc, loc, out, hist, got, qin>>

\* GetUsdRatesHistory: the URL it asks fetchXML for, and what it makes of the
\* document fetchXML hands back.
CallGetUsdRatesHistory ==
    /\ qout.call = "none"
    /\ LET r == GetUsdRatesHistory(qin) IN
       qout' = [call |-> "GetUsdRatesHistory", url |-> HistoryURL(now),
                history |-> r.history, err |-> r.err]
    /\ UNCHANGED <<mu, now, data, expiration, pc, loc, out, hist, got, qin>>

QueryInit ==
    /\ now \in DayStarts
    /\ qin \in QueryInputs
    /\ now = 0 \/ qin = ExampleHistory
    /\ qout = NoCall
    /\ data = EmptyMap
    /\ expiration = EmptyMap
    /\ mu = Unlocked
    /\ ServerIdle
    /\ CacheHarnessIdle

QueryNext == CallGetUsdRate \/ CallGetCursDate \/ CallGetUsdRatesHistory

SpecQuery == QueryInit /\ [][QueryNext]_vars

\* C6: on a fetched snapshot GetUsdRate returns the parsed value of the first
\* entry, in document order, whose code is exactly "USD", whatever entries
\* come before and after it; with no such entry it fails with "USD rate not
\* found" and returns no rate.
C6_FirstUsdEntry ==
    (qout.call = "GetUsdRate" /\ qin.err.nil) =>
        LET vs == qin.valCurs.Valutes
            usd == {i \in 1..Len(vs) : vs[i].CharCode = "USD"}
        IN IF usd = {}
           THEN /\ ~qout.err.nil
                /\ qout.err.msg = "USD rate not found"
                /\ qout.rate = Zero
           ELSE LET first == CHOOSE i \in usd : \A j \in usd : i <= j
                    r == parseRate(vs[first].Value)
                IN qout.rate = r.rate /\ qout.err = r.err

\* GetUsdRate on a snapshot with a "usd" entry, then USD 91,23, then another
\* USD entry: it returned 91.23.
C6_Witness ==
    /\ qout.call = "GetUsdRate"
    /\ qin.err.nil
    /\ Len(qin.valCurs.Valutes) = 3
    /\ qin.valCurs.Valutes[1].CharCode = "usd"
    /\ qin.valCurs.Valutes[2] = [CharCode |-> "USD", Value |-> <<"9", "1", ",", "2", "3">>]
    /\ qin.valCurs.Valutes[3].CharCode = "USD"
    /\ qin.valCurs.Valutes[3] # qin.valCurs.Valutes[2]
    /\ qout.err.nil
    /\ qout.rate = [num |-> 9123, scale |-> 2]

Parses(record) == parseRate(record.Value).err.nil

\* C7: on a fetched historical document GetUsdRatesHistory returns, without
\* error, exactly the entries whose value parses, in their order and with
\* their dates; the others are dropped, also when none parses.
C7_HistoryKeepsParsable ==
    (qout.call = "GetUsdRatesHistory" /\ qin.err.nil) =>
        LET kept == SelectSeq(qin.valCurs.Records, Parses) IN
        /\ qout.err.nil
        /\ Len(qout.history) = Len(kept)
        /\ \A i \in 1..Len(kept) :
              /\ qout.history[i].date = kept[i].Date
              /\ qout.history[i].rate = parseRate(kept[i].Value).rate

\* The example of the specification: the malformed middle entry is dropped.
C7_Witness ==
    /\ qout.call = "GetUsdRatesHistory"
    /\ qin = ExampleHistory
    /\ qout.err.nil
    /\ qout.history = <<[date |-> "01.01.2024", rate |-> [num |-> 91, scale |-> 0]],
                        [date |-> "03.01.2024", rate |-> [num |-> 925, scale |-> 1]]>>

\* A date string DD.MM.YYYY read back: two digits, a dot, two digits, a dot,
\* four digits.
IsDDMMYYYY(s) ==
    /\ Len(s) = 10
    /\ s[3] = "." /\ s[6] = "."
    /\ \A i \in {1, 2, 4, 5, 7, 8, 9, 10} : s[i] \in Digits

ReadDDMMYYYY(s) ==
    <<1000 * DigitVal(s[7]) + 100 * DigitVal(s[8]) + 10 * DigitVal(s[9]) + DigitVal(s[10]),
      10 * DigitVal(s[4]) + DigitVal(s[5]),
      10 * DigitVal(s[1]) + DigitVal(s[2])>>

\* The number of a calendar day, counted from 1 January of year 1.
LeapsBefore(y) == ((y - 1) \div 4) - ((y - 1) \div 100) + ((y - 1) \div 400)

RECURSIVE DaysBeforeMonth(_, _)
DaysBeforeMonth(y, m) == IF m = 1 THEN 0 ELSE DaysBeforeMonth(y, m - 1) + DaysIn(y, m - 1)

Ordinal(date) ==
    365 * (date[1] - 1) + LeapsBefore(date[1]) + DaysBeforeMonth(date[1], date[2]) + date[3]

\* The calendar days in the range [start, end], both included.
DaysCovered(start, end) == Ordinal(end) - Ordinal(start) + 1

HistoryCalled == qout.call = "GetUsdRatesHistory"

\* C9 as stated: the range asked for ends today and covers 7 calendar days,
\* today included; both bounds are written DD.MM.YYYY in the URL.
C9_RangeCoversSevenDays ==
    HistoryCalled =>
        /\ IsDDMMYYYY(qout.url[2]) /\ IsDDMMYYYY(qout.url[4])
        /\ ReadDDMMYYYY(qout.url[4]) = DateOf(now)
        /\ DaysCovered(ReadDDMMYYYY(qout.url[2]), ReadDDMMYYYY(qout.url[4])) = 7

\* C9 amended: the range asked for ends today and starts on the date 7 days
\* before today, so it covers 8 calendar days, today included; both bounds
\* are written DD.MM.YYYY in the URL.
C9_RangeStartsSevenDaysBack ==
    HistoryCalled =>
        /\ Len(qout.url) = 5
        /\ qout.url[1] = dynamicRatesPrefix
        /\ qout.url[3] = dynamicRatesMiddle
        /\ qout.url[5] = dynamicRatesSuffix
        /\ IsDDMMYYYY(qout.url[2]) /\ IsDDMMYYYY(qout.url[4])
        /\ ReadDDMMYYYY(qout.url[4]) = DateOf(now)
        /\ Ordinal(ReadDDMMYYYY(qout.url[4])) - Ordinal(ReadDDMMYYYY(qout.url[2])) = 7
        /\ DaysCovered(ReadDDMMYYYY(qout.url[2]), ReadDDMMYYYY(qout.url[4])) = 8

\* The range asked for on 3 March 2025 starts in February, on the 24th.
C9_Witness ==
    /\ HistoryCalled
    /\ DateOf(now) = <<2025, 3, 3>>
    /\ qout.url[2] = <<"2", "4", ".", "0", "2", ".", "2", "0", "2", "5">>
    /\ qout.url[4] = <<"0", "3", ".", "0", "3", ".", "2", "0", "2", "5">>

\* C10: GetCursDate returns the Date attribute of a fetched snapshot as it
\* stands in the document, whatever its form, and the error of fetchXML with
\* an empty date when the fetch failed.
C10_DatePassthrough ==
    qout.call = "GetCursDate" =>
        IF qin.err.nil
        THEN qout.date = qin.valCurs.Date /\ qout.err.nil
        ELSE qout.date = "" /\ qout.err = qin.err /\ ~qout.err.nil

\* A date that is not written DD.MM.YYYY came back as it was.
C10_Witness ==
    /\ qout.call = "GetCursDate"
    /\ qin.err.nil
    /\ qin.valCurs.Date = "2024-03-02"
    /\ qout.date = "2024-03-02"

\* C11: a fetch error comes back from each of the three queries as the
\* call's error, unchanged and with no result; GetUsdRate returns the parse
\* error of the first USD entry even when a later USD entry parses; only
\* GetUsdRatesHistory goes on after a parse error, and returns none.
C11_ErrorsPropagate ==
    /\ (qout.call # "none" /\ ~qin.err.nil) =>
           /\ qout.err = qin.err
           /\ qout.call = "GetUsdRate" => qout.rate = Zero
           /\ qout.call = "GetCursDate" => qout.date = ""
           /\ qout.call = "GetUsdRatesHistory" => qout.history = <<>>
    /\ (qout.call = "GetUsdRate" /\ qin.err.nil) =>
           LET vs == qin.valCurs.Valutes IN
           \A i \in 1..Len(vs) :
               (/\ vs[i].CharCode = "USD"
                /\ \A j \in 1..(i - 1) : vs[j].CharCode # "USD"
                /\ ~parseRate(vs[i].Value).err.nil)
                   => (/\ ~qout.err.nil
                       /\ qout.err.msg = "failed to parse rate"
                       /\ qout.rate = Zero)
    /\ (qout.call = "GetUsdRatesHistory" /\ qin.err.nil) => qout.err.nil

\* GetUsdRate failed on a snapshot whose first USD entry does not parse and
\* whose next USD entry does.
C11_Witness ==
    /\ qout.call = "GetUsdRate"
    /\ qin.err.nil
    /\ Len(qin.valCurs.Valutes) >= 2
    /\ qin.valCurs.Valutes[1] = [CharCode |-> "USD", Value |-> <<"b", "a", "d">>]
    /\ qin.valCurs.Valutes[2] = [CharCode |-> "USD", Value |-> <<"9", "1", ",", "2", "3">>]
    /\ ~qout.err.nil
    /\ qout.err.msg = "failed to parse rate"

-----------------------------------------------------------------------------
(* Parse harness: parseRate is called once on some short text.             *)

MaxLen == 3           \* longest text drawn from the whole alphabet

Alphabet == {"1", "2", ",", ".", "-", "+", "e", "N", "a", "n", "I", "f", "b"}

RateStrings ==
    SeqsUpTo(Alphabet, MaxLen)
        \cup {<<"9", "1", ",", "2", "3">>, <<"9", "1", ".", "2", "3">>,
              <<"1", ",", "2", ",", "3">>, <<"1", ".", "2", ",", "3">>,
              <<"1", ",", "2", ".", "3">>, <<"a", "b", "c">>,
              <<"I", "n", "f", "i", "n", "i", "t", "y">>}

CallParseRate ==
    /\ qout.call = "none"
    /\ LET r == parseRate(qin.rateStr) IN
       qout' = [call |-> "parseRate", rate |-> r.rate, err |-> r.err]
    /\ UNCHANGED <<mu, now, data, expiration, pc, loc, out, hist, got, qin>>

ParseInit ==
    /\ now = 0
    /\ qin \in {[rateStr |-> s] : s \in RateStrings}
    /\ qout = NoCall
    /\ data = EmptyMap
    /\ expiration = EmptyMap
    /\ mu = Unlocked
    /\ ServerIdle
    /\ CacheHarnessIdle

ParseNext == CallParseRate

SpecParse == ParseInit /\ [][ParseNext]_vars

ParseCalled == qout.call = "parseRate"

\* Text in which no character is a digit.
NonNumeric(s) == \A i \in 1..Len(s) : s[i] \notin Digits

Separators(s) == Cardinality({i \in 1..Len(s) : s[i] \in {",", "."}})

\* C12: parseRate returns an error and no rate for the empty string, for
\* every text without a digit and for every text with more than one
\* separator; "91,23" and "91.23" both give 91.23 without error.
C12_RejectsNonNumbers ==
    ParseCalled =>
        LET s == qin.rateStr IN
        /\ (s = <<>> \/ NonNumeric(s) \/ Separators(s) > 1)
               => (~qout.err.nil /\ qout.rate = Zero)
        /\ s \in {<<"9", "1", ",", "2", "3">>, <<"9", "1", ".", "2", "3">>}
               => (qout.err.nil /\ qout.rate = [num |-> 9123, scale |-> 2])

\* parseRate has taken "NaN" or a signed "Inf" for a rate.
C12_SpecialAccepted ==
    /\ ParseCalled
    /\ NonNumeric(qin.rateStr)
    /\ qout.err.nil

-----------------------------------------------------------------------------
(* Lock-level cache (src/main.go:61-80): workers call Set and Get, with    *)
(* any key, value and ttl, and each call is taken statement by statement:  *)
(* Lock, the two map writes, Unlock; RLock, the read of the expiration,    *)
(* the comparison with the clock, the read of the value, RUnlock.  `hist`  *)
(* holds per key the value and the expiration instant of the last Set that *)
(* has completed.                                                          *)

LockTTLs == {0, MaxTTL - 1}

SetStatements == {"data", "exp", "Unlock"}
GetStatements == {"readExp", "After", "readData", "RUnlock"}

\* The locals of a call of Set, of Get, or of fetchXML with the Get and the
\* Set it makes.
LockLoc ==
    [call |-> "none", key |-> <<>>, value |-> Nil, ttl |-> 0, at |-> 0,
     exp |-> 0, exists |-> FALSE, found |-> FALSE,
     url |-> <<>>, resp |-> NoResponse, sentAt |-> 0, ret |-> Failed(NilError)]

BeginSet(w, k, v, ttl) ==
    /\ pc[w] = "idle"
    /\ loc' = [loc EXCEPT ![w] = [LockLoc EXCEPT !.call = "Set", !.key = k,
                                                 !.value = v, !.ttl = ttl]]
    /\ pc' = [pc EXCEPT ![w] = "Lock"]
    /\ UNCHANGED <<mu, now, data, expiration, out, hist, got, qin, qout>>

\* c.mu.Lock(), line 75: past the other writers, then wait for the readers.
Lock(w) ==
    /\ pc[w] = "Lock"
    /\ CanLock(mu)
    /\ IF Drained(mu)
       THEN /\ mu' = [mu EXCEPT !.writer = w]
            /\ pc' = [pc EXCEPT ![w] = "data"]
       ELSE /\ mu' = [mu EXCEPT !.pending = w]
            /\ pc' = [pc EXCEPT ![w] = "LockWait"]
    /\ UNCHANGED <<now, data, expiration, loc, out, hist, got, qin, qout>>

LockWait(w) ==
    /\ pc[w] = "LockWait"
    /\ Drained(mu)
    /\ mu' = [mu EXCEPT !.writer = w, !.pending = 0]
    /\ pc' = [pc EXCEPT ![w] = "data"]
    /\ UNCHANGED <<now, data, expiration, loc, out, hist, got, qin, qout>>

\* c.data[key] = value, line 78.
SetData(w) ==
    /\ pc[w] = "data"
    /\ data' = CacheSetData(data, loc[w].key, loc[w].value)
    /\ pc' = [pc EXCEPT ![w] = "exp"]
    /\ UNCHANGED <<mu, now, expiration, loc, out, hist, got, qin, qout>>

\* c.expiration[key] = time.Now().Add(expiration), line 79.
SetExpiration(w) ==
    /\ pc[w] = "exp"
    /\ expiration' = CacheSetExpiration(expiration, loc[w].key, loc[w].ttl, now)
    /\ loc' = [loc EXCEPT ![w].at = now]
    /\ pc' = [pc EXCEPT ![w] = "Unlock"]
    /\ UNCHANGED <<mu, now, data, out, hist, got, qin, qout>>

\* The deferred c.mu.Unlock(), line 76: the Set has completed; inside
\* fetchXML, line 131 follows.
Unlock(w) ==
    /\ pc[w] = "Unlock"
    /\ mu' = [mu EXCEPT !.writer = 0]
    /\ hist' = Put(hist, loc[w].key,
                   [value |-> loc[w].value, exp |-> loc[w].at + loc[w].ttl])
    /\ IF loc[w].call = "Set"
       THEN /\ pc' = [pc EXCEPT ![w] = "idle"]
            /\ loc' = [loc EXCEPT ![w] = IdleLoc]
       ELSE /\ pc' = [pc EXCEPT ![w] = "ret"]
            /\ loc' = loc
    /\ UNCHANGED <<now, data, expiration, out, got, qin, qout>>

BeginGet(w, k) ==
    /\ pc[w] = "idle"
    /\ loc' = [loc EXCEPT ![w] = [LockLoc EXCEPT !.call = "Get", !.key = k]]
    /\ pc' = [pc EXCEPT ![w] = "RLock"]
    /\ UNCHANGED <<mu, now, data, expiration, out, hist, got, qin, qout>>

\* c.mu.RLock(), line 62.
RLock(w) ==
    /\ pc[w] = "RLock"
    /\ CanRLock(mu)
    /\ mu' = [mu EXCEPT !.readers = @ \cup {w}]
    /\ pc' = [pc EXCEPT ![w] = "readExp"]
    /\ UNCHANGED <<now, data, expiration, loc, out, hist, got, qin, qout>>

\* exp, exists := c.expiration[key], line 65.
GetExpiration(w) ==
    /\ pc[w] = "readExp"
    /\ loc' = [loc EXCEPT ![w].exists = loc[w].key \in DOMAIN expiration,
                          ![w].exp = IF loc[w].key \in DOMAIN expiration
                                     THEN expiration[loc[w].key] ELSE 0]
    /\ pc' = [pc EXCEPT ![w] = "After"]
    /\ UNCHANGED <<mu, now, data, expiration, out, hist, got, qin, qout>>

\* if !exists || time.Now().After(exp) { return nil, false }, lines 66-68.
GetAfter(w) ==
    /\ pc[w] = "After"
    /\ loc' = [loc EXCEPT ![w].at = now]
    /\ pc' = [pc EXCEPT ![w] =
                 IF ~loc[w].exists \/ now > loc[w].exp THEN "RUnlock" ELSE "readData"]
    /\ UNCHANGED <<mu, now, data, expiration, out, hist, got, qin, qout>>

\* val, exists := c.data[key]; return val, exists, lines 70-71.
GetData(w) ==
    /\ pc[w] = "readData"
    /\ loc' = [loc EXCEPT ![w].found = loc[w].key \in DOMAIN data,
                          ![w].value = IF loc[w].key \in DOMAIN data
                                       THEN data[loc[w].key] ELSE Nil]
    /\ pc' = [pc EXCEPT ![w] = "RUnlock"]
    /\ UNCHANGED <<mu, now, data, expiration, out, hist, got, qin, qout>>

\* The deferred c.mu.RUnlock(), line 63: the Get returns; inside fetchXML,
\* lines 97-111 follow: the cached document is returned, or the request sent.
RUnlock(w) ==
    /\ pc[w] = "RUnlock"
    /\ mu' = [mu EXCEPT !.readers = @ \ {w}]
    /\ IF loc[w].call = "Get"
       THEN /\ pc' = [pc EXCEPT ![w] = "idle"]
            /\ loc' = [loc EXCEPT ![w] = IdleLoc]
       ELSE IF loc[w].found
       THEN /\ pc' = [pc EXCEPT ![w] = "ret"]
            /\ loc' = [loc EXCEPT ![w] = [LockLoc EXCEPT !.call = "fetchXML",
                                              !.key = loc[w].key, !.url = loc[w].url,
                                              !.ret = Fetched(loc[w].value)]]
       ELSE /\ pc' = [pc EXCEPT ![w] = "await"]
            /\ loc' = [loc EXCEPT ![w] = [LockLoc EXCEPT !.call = "fetchXML",
                                              !.key = loc[w].key, !.url = loc[w].url,
                                              !.sentAt = now]]
    /\ UNCHANGED <<now, data, expiration, out, hist, got, qin, qout>>

LockStep(w) ==
    \/ \E k \in HarnessKeys, v \in HarnessValues, ttl \in LockTTLs : BeginSet(w, k, v, ttl)
    \/ Lock(w)
    \/ LockWait(w)
    \/ SetData(w)
    \/ SetExpiration(w)
    \/ Unlock(w)
    \/ \E k \in HarnessKeys : BeginGet(w, k)
    \/ RLock(w)
    \/ GetExpiration(w)
    \/ GetAfter(w)
    \/ GetData(w)
    \/ RUnlock(w)

LockNext == Tick \/ \E w \in Workers : LockStep(w)

SpecLock == CacheInit /\ [][LockNext]_vars

-----------------------------------------------------------------------------
(* Claims about the cache under concurrent calls, checked on the           *)
(* lock-level cache.                                                       *)

\* Worker w's Get returns in this step, w's Set completes in this step.
GetReturns(w) == pc[w] = "RUnlock" /\ pc'[w] = "idle"
SetCompletes(w) == pc[w] = "Unlock" /\ pc'[w] = "idle"

\* C14: a Get returns what the most recently completed Set on its key has
\* stored: that Set's value when the clock it read has not passed that Set's
\* expiration instant, nothing when it has or when no Set on the key has
\* completed; never the value of an earlier Set, nor one Set's value under
\* another's expiration.  And a Set that completes has stored its value and
\* its expiration, whatever entry the key had, while no Set is under way the
\* store holds for each key the value and expiration of one and the same Set.
C14_GetSeesLastCompletedSet ==
    /\ [][\A w \in Workers :
             /\ GetReturns(w) =>
                    LET k == loc[w].key IN
                    IF k \notin DOMAIN hist \/ loc[w].at > hist[k].exp
                    THEN ~loc[w].found /\ loc[w].value = Nil
                    ELSE loc[w].found /\ loc[w].value = hist[k].value
             /\ SetCompletes(w) =>
                    /\ data'[loc[w].key] = loc[w].value
                    /\ expiration'[loc[w].key] = loc[w].at + loc[w].ttl]_vars
    /\ [](mu.writer = 0 =>
             /\ DOMAIN data = DOMAIN hist /\ DOMAIN expiration = DOMAIN hist
             /\ \A k \in DOMAIN hist :
                    data[k] = hist[k].value /\ expiration[k] = hist[k].exp)

\* A Get is about to return the value of the last completed Set on its key,
\* an entry that has not expired, while a Set of another value on that key
\* has announced itself and waits for the reader to leave.
C14_Witness ==
    \E w \in Workers, v \in Workers :
        /\ pc[w] = "RUnlock"
        /\ loc[w].found
        /\ loc[w].value = hist[loc[w].key].value
        /\ now < hist[loc[w].key].exp
        /\ pc[v] = "LockWait"
        /\ loc[v].key = loc[w].key
        /\ loc[v].value # loc[w].value

\* The workers inside the critical section of Set, and of Get.
InSet == {w \in Workers : pc[w] \in SetStatements}
InGet == {w \in Workers : pc[w] \in GetStatements}

\* C15: at most one worker is inside Set's critical section, and none is
\* inside Get's while one is; a map is written only by the worker that holds
\* the write lock, with no reader inside, and read only by a worker that
\* holds the read lock, with no writer inside.
C15_WriterExcludesAll ==
    /\ [](/\ Cardinality(InSet) <= 1
          /\ InSet # {} => InGet = {}
          /\ InSet = IF mu.writer = 0 THEN {} ELSE {mu.writer}
          /\ InGet = mu.readers)
    /\ [][/\ (data' # data \/ expiration' # expiration) =>
                \E w \in Workers :
                    /\ mu.writer = w /\ mu.readers = {}
                    /\ pc[w] \in {"data", "exp"} /\ pc'[w] # pc[w]
          /\ \A w \in Workers :
                (pc[w] \in {"readExp", "readData"} /\ pc'[w] # pc[w])
                    => (w \in mu.readers /\ mu.writer = 0
                        /\ data' = data /\ expiration' = expiration)]_vars

\* Two workers are inside Get's critical section at once, one reading the
\* expiration and one the value.
C15_Witness ==
    /\ Cardinality(InGet) >= 2
    /\ \E w \in InGet : pc[w] = "readData"
    /\ \E w \in InGet : pc[w] = "readExp"
    /\ mu.writer = 0

-----------------------------------------------------------------------------
(* fetchXML over the lock-level cache (src/main.go:96-132): workers call   *)
(* fetchXML, whose Get and Set are taken statement by statement.           *)

\* The URL the calls are made with: all calls contend for one entry.
FetchURLs == {dailyRatesURL}

BeginFetch(w, url) ==
    /\ pc[w] = "idle"
    /\ loc' = [loc EXCEPT ![w] = [LockLoc EXCEPT !.call = "fetchXML", !.key = url,
                                                 !.url = url]]
    /\ pc' = [pc EXCEPT ![w] = "RLock"]
    /\ UNCHANGED <<mu, now, data, expiration, out, hist, got, qin, qout>>

\* A client without Timeout and a context without deadline: the request is
\* never ended from this side.
TimeOutUnset(w) ==
    /\ pc[w] = "await"
    /\ FALSE
    /\ UNCHANGED vars

\* The deadline of the context and the Timeout of the client (lines 90 and
\* 101) end the request: client.Do returns an error.
TimeOut(w) ==
    /\ pc[w] = "await"
    /\ loc' = [loc EXCEPT ![w].resp = NetError(TRUE)]
    /\ pc' = [pc EXCEPT ![w] = "recv"]
    /\ UNCHANGED <<mu, now, data, expiration, out, hist, got, qin, qout>>

\* Lines 112-129: the checks and the decoding; then the error is returned,
\* or Set is called with the document.
FetchChecks(w) ==
    /\ pc[w] = "recv"
    /\ LET res == fetchXMLResult(loc[w].resp) IN
       IF fetchXMLStores(loc[w].resp)
       THEN /\ loc' = [loc EXCEPT ![w].ret = res, ![w].value = res.valCurs,
                                  ![w].ttl = cacheExpiration]
            /\ pc' = [pc EXCEPT ![w] = "Lock"]
       ELSE /\ loc' = [loc EXCEPT ![w].ret = res]
            /\ pc' = [pc EXCEPT ![w] = "ret"]
    /\ UNCHANGED <<mu, now, data, expiration, out, hist, got, qin, qout>>

\* The caller has the result.
FetchReturn(w) ==
    /\ pc[w] = "ret"
    /\ pc' = [pc EXCEPT ![w] = "idle"]
    /\ loc' = [loc EXCEPT ![w] = IdleLoc]
    /\ UNCHANGED <<mu, now, data, expiration, out, hist, got, qin, qout>>

LiveStep(w) ==
    \/ \E url \in FetchURLs : BeginFetch(w, url)
    \/ RLock(w)
    \/ GetExpiration(w)
    \/ GetAfter(w)
    \/ GetData(w)
    \/ RUnlock(w)
    \/ TimeOut(w)
    \/ Upstream(w, FALSE)
    \/ FetchChecks(w)
    \/ Lock(w)
    \/ LockWait(w)
    \/ SetData(w)
    \/ SetExpiration(w)
    \/ Unlock(w)
    \/ FetchReturn(w)

LiveNext == Tick \/ \E w \in Workers : LiveStep(w)

\* The scheduler runs every goroutine that can take a step; the timer of a
\* request fires; sync.RWMutex lets every waiting reader and writer in.  The
\* upstream owes no answer, new requests need not come, and the clock is not
\* forced on.
Fair(w) ==
    /\ WF_vars(GetExpiration(w) \/ GetAfter(w) \/ GetData(w) \/ RUnlock(w))
    /\ WF_vars(SetData(w) \/ SetExpiration(w) \/ Unlock(w))
    /\ WF_vars(FetchChecks(w))
    /\ WF_vars(TimeOut(w))
    /\ WF_vars(LockWait(w))
    /\ SF_vars(RLock(w))
    /\ SF_vars(Lock(w))

SpecLive == Init /\ [][LiveNext]_vars /\ \A w \in Workers : Fair(w)

\* Worker w is inside a fetchXML call that has not returned yet.
InFetch(w) == pc[w] \notin {"idle", "ret"}

\* C17: every fetchXML call returns; a worker that waits on the network
\* holds no lock of the cache and has announced none, and does not wait past
\* the timeout; a request ended by the timeout makes the call return the
\* error "failed to fetch data".
C17_FetchReturns ==
    /\ \A w \in Workers : InFetch(w) ~> (pc[w] = "ret")
    /\ [](\A w \in Workers :
             pc[w] = "await" =>
                 /\ mu.writer # w /\ mu.pending # w /\ w \notin mu.readers
                 /\ now <= loc[w].sentAt + httpTimeout)
    /\ [][\A w \in Workers :
             (pc[w] = "recv" /\ loc[w].resp = NetError(TRUE) /\ pc'[w] # pc[w])
                 => (/\ pc'[w] = "ret"
                     /\ ~loc'[w].ret.err.nil
                     /\ loc'[w].ret.err.msg = "failed to fetch data"
                     /\ loc'[w].ret.valCurs = Nil)]_vars

\* A call has returned the error of a request that timed out, while another
\* worker was storing a document.
C17_Witness ==
    \E w \in Workers, v \in Workers :
        /\ pc[w] = "ret"
        /\ loc[w].resp = NetError(TRUE)
        /\ ~loc[w].ret.err.nil
        /\ pc[v] \in SetStatements

-----------------------------------------------------------------------------
(* Claims about concurrent requests, checked on the server with            *)
(* NumWorkers workers.                                                     *)

\* Worker w's fetchXML call looks its URL up in this step.
Looks(w) == pc[w] = "lookup" /\ pc'[w] # pc[w]

\* Worker v has a request of its own out for the URL of w, or its answer in
\* hand and not yet stored.
InFlight(v, w) == v # w /\ pc[v] \in {"await", "recv"} /\ loc[v].url = loc[w].url

\* C13: a fetchXML call that finds its URL absent or expired sends a request
\* of its own, whether or not other workers have requests out for the same
\* URL; and every call that gets a good answer stores its own document and
\* expiration under the URL, whatever the others have stored meanwhile.
C13_MissesNotDeduplicated ==
    [][\A w \in Workers :
          /\ (Looks(w) /\ ~CacheGet(data, expiration, loc[w].url, now).found)
                 => (/\ pc'[w] = "await"
                     /\ loc'[w].calls = Append(loc[w].calls, "miss")
                     /\ loc'[w].sentAt = now)
          /\ (Returns(w) /\ loc'[w].ret.err.nil)
                 => (/\ data'[loc[w].url] = loc'[w].ret.valCurs
                     /\ expiration'[loc[w].url] = now + cacheExpiration)]_vars

\* Two workers missed on the same URL, each sent a request and got a
\* different document, and each has stored its own: the later one's stands.
C13_Witness ==
    /\ pc[1] = "ret" /\ pc[2] = "ret"
    /\ loc[1].url = loc[2].url
    /\ loc[1].calls = <<"miss">> /\ loc[2].calls = <<"miss">>
    /\ loc[1].ret.err.nil /\ loc[2].ret.err.nil
    /\ loc[1].ret.valCurs # loc[2].ret.valCurs
    /\ data[loc[1].url] = loc[2].ret.valCurs

-----------------------------------------------------------------------------
(* More claims checked on the sequential server.                           *)

\* The store is the same before and after the step.
CacheUnchanged == data' = data /\ expiration' = expiration

\* C16: the cache lookup of fetchXML, hit or miss, the extraction steps of
\* the three queries, the end of a handler and the passing of time leave
\* every entry of the cache as it was, an expired one included; no step
\* removes an entry; and the store changes only in the step in which a
\* fetchXML call that sent a request returns a document, and then only under
\* the URL of that call.
C16_OnlySetChangesCache ==
    [][/\ \A w \in Workers :
            /\ Looks(w) => CacheUnchanged
            /\ (pc[w] \in {"idle", "await", "ret", "done"} /\ pc'[w] # pc[w])
                   => CacheUnchanged
            /\ (Returns(w) /\ ~loc'[w].ret.err.nil) => CacheUnchanged
       /\ now' # now => CacheUnchanged
       /\ DOMAIN data \subseteq DOMAIN data'
       /\ DOMAIN expiration \subseteq DOMAIN expiration'
       /\ ~CacheUnchanged =>
              \E w \in Workers :
                  /\ Returns(w)
                  /\ loc'[w].ret.err.nil
                  /\ loc[w].calls[Len(loc[w].calls)] = "miss"
                  /\ \A k \in DOMAIN data \ {loc[w].url} :
                         data'[k] = data[k] /\ expiration'[k] = expiration[k]]_vars

\* A handler of "/" was answered twice from the cache while an expired entry
\* of another key is still in the store.
C16_Witness ==
    \E w \in Workers :
        /\ pc[w] = "done"
        /\ out[w].route = "/"
        /\ loc[w].calls = <<"hit", "hit">>
        /\ \E k \in DOMAIN data : k # loc[w].url /\ now > expiration[k]

\* C18: every value in the cache is a *ValCurs that points to a document,
\* and every key with an expiration has a value; no handler has panicked; a
\* fetchXML call hands its caller either a document and no error or an error
\* and no document, and a handler ends with a page, a series, or status 500
\* and the error.
C18_NoPanic ==
    /\ \A k \in DOMAIN data : IsValCurs(data[k])
    /\ DOMAIN expiration \subseteq DOMAIN data
    /\ \A w \in Workers :
          /\ pc[w] # "panic"
          /\ pc[w] = "ret" =>
                 IF loc[w].ret.err.nil THEN IsValCurs(loc[w].ret.valCurs)
                 ELSE loc[w].ret.valCurs = Nil
          /\ pc[w] = "done" =>
                 \/ out[w].route = "/"
                 \/ out[w].route = "/history" /\ out[w].status = 200 /\ out[w].error.nil
                 \/ out[w].route = "/history" /\ out[w].status = 500 /\ ~out[w].error.nil

\* A "/history" request ended with status 500 on a body that does not
\* decode, while the cache holds a snapshot.
C18_Witness ==
    \E w \in Workers :
        /\ pc[w] = "done"
        /\ out[w].route = "/history"
        /\ out[w].status = 500
        /\ out[w].error.msg = "failed to parse XML"
        /\ dailyRatesURL \in DOMAIN data
        /\ IsValCurs(data[dailyRatesURL])

\* The instant at which the entry of key k was stored.
StoredAt(k) == expiration[k] - cacheExpiration

\* C19: a fetchXML call that finds the entry of its URL expired returns no
\* document from the lookup but sends a request; a call whose request fails
\* returns the error and no document, whatever the store holds; and a
\* document that fetchXML returns was either fetched by this call or stored
\* no more than one hour ago.
C19_NoStaleDocument ==
    [][\A w \in Workers :
          /\ (Looks(w) /\ loc[w].url \in DOMAIN expiration
                       /\ now > expiration[loc[w].url])
                 => (pc'[w] = "await" /\ loc'[w].ret = loc[w].ret)
          /\ (Returns(w) /\ ~fetchXMLResult(loc[w].resp).err.nil)
                 => (loc'[w].ret.valCurs = Nil /\ ~loc'[w].ret.err.nil)
          /\ (Looks(w) /\ pc'[w] = "ret")
                 => (/\ loc'[w].ret.err.nil
                     /\ loc'[w].ret.valCurs = data[loc[w].url]
                     /\ now - StoredAt(loc[w].url) <= Hour)
          /\ (Returns(w) /\ loc'[w].ret.err.nil)
                 => loc'[w].ret.valCurs = Decode(loc[w].resp.body)]_vars

\* A "/" request was answered with rate 0 and no date while the store still
\* holds the snapshot with rate 91,23, expired.
C19_Witness ==
    \E w \in Workers :
        /\ pc[w] = "done"
        /\ out[w] = [route |-> "/", course |-> Zero, date |-> ""]
        /\ loc[w].calls = <<"miss", "miss">>
        /\ dailyRatesURL \in DOMAIN data
        /\ data[dailyRatesURL] = Decode(DailyA)
        /\ now > expiration[dailyRatesURL]

-----------------------------------------------------------------------------
(* A claim about the handler of "/", checked on the server with            *)
(* NumWorkers workers.                                                     *)

\* The snapshots the upstream serves.
Snapshots == {Decode(b) : b \in {b \in Bodies(dailyRatesURL) : Decodable(b)}}

\* Worker w has handled "/" with both GetUsdRate and GetCursDate succeeding.
BothSucceeded(w) ==
    /\ pc[w] = "done"
    /\ out[w].route = "/"
    /\ out[w].course # Zero
    /\ out[w].date # ""

\* C20: when both queries of one "/" request succeed, the rate and the date
\* of the page are those of one and the same snapshot.
C20_RateAndDateOfOneSnapshot ==
    \A w \in Workers :
        BothSucceeded(w) =>
            \E doc \in Snapshots :
                /\ GetUsdRate(Fetched(doc)).err.nil
                /\ out[w].course = GetUsdRate(Fetched(doc)).rate
                /\ out[w].date = doc.Date

====
